---------------------------- MODULE Spec2Model ----------------------------
(***************************************************************************)
(* Model of the rank selector of the "Ranking the World" dashboard         *)
(* (src/app.py): the per-indicator tables, return_chart_data and its       *)
(* callers create_bar_chart, create_countries_list and the update_all      *)
(* callback.                                                               *)
(*                                                                         *)
(* A DataFrame is a sequence of rows, a row is a record whose fields are   *)
(* the columns.  Countries are numbered 1..NumCountries; the dropdown      *)
(* value None is 0 and the empty string is a negative number, both falsy.  *)
(***************************************************************************)
EXTENDS Integers, Sequences, FiniteSets, TLC

(* ------------------------------ bounds -------------------------------- *)
\* largest number of rows of an indicator table
MaxN == 23

\* number of rows app.py asks nlargest / nsmallest for, and the rank
\* thresholds of the neighbour selection
TopN == 10
WindowBelow == 5
WindowAbove == 4

\* selected_country = None
None == 0
\* the empty string as a dropdown value
EmptyString == 0 - 1

\* countries of countries.csv: one more than any table holds, so that at
\* least one selectable country is absent from every table
NumCountries == MaxN + 1
Countries == 1..NumCountries
CountryValues == Countries \cup {None, EmptyString}

Modes == {"top10", "country"}

\* the ids of the displayed charts / tables, in layout order
\* (first entries of the People and Economy groups)
indicator_ids == <<"Population", "GDP">>
Indicators == {indicator_ids[k] : k \in 1..Len(indicator_ids)}

Min(a, b) == IF a <= b THEN a ELSE b

(* --------------------------- pandas helpers --------------------------- *)
\* Series.max() of a non-empty column
ColMax(df, col) ==
  LET v == {df[i][col] : i \in 1..Len(df)}
  IN CHOOSE m \in v : \A x \in v : x <= m

\* DataFrame.sort_values(by=..., ascending=...): rows with equal keys keep
\* their relative order (SortSeq moves a row ahead of its predecessor only
\* while the comparison holds, and the comparison is strict)
sort_values(df, by, ascending) ==
  IF ascending
  THEN SortSeq(df, LAMBDA a, b : a[by] < b[by])
  ELSE SortSeq(df, LAMBDA a, b : a[by] > b[by])

\* DataFrame.head(n)
head(df, n) == SubSeq(df, 1, Min(n, Len(df)))

\* mutant of nlargest: one row too many
nlargest_one_more(df, n, col) == head(sort_values(df, col, FALSE), n + 1)

\* DataFrame.nlargest(n, col), keep='first': the first n rows of the frame
\* sorted by col descending, rows with equal values in their original order
nlargest(df, n, col) == head(sort_values(df, col, FALSE), n)

\* DataFrame.nsmallest(n, col), keep='first': the first n rows of the frame
\* sorted by col ascending, rows with equal values in their original order
nsmallest(df, n, col) == head(sort_values(df, col, TRUE), n)

\* the boolean-mask filter df[(df["Rank"] >= lo) & (df["Rank"] <= hi)]
Filter(df, lo, hi) == SelectSeq(df, LAMBDA r : r.Rank >= lo /\ r.Rank <= hi)

(* ------------------------------- state -------------------------------- *)
VARIABLES
  indicator_dfs,   \* indicator name -> DataFrame, sorted by Rank ascending
  df_metadata,     \* indicator name -> [Group, Min_value, Max_value]
  mode,            \* value of the "mode" radio buttons
  country,         \* value of the "country-dropdown"
  figures,         \* the displayed chart figures, one per chart id
  table_data,      \* the displayed countries-table data, one per table id
  table_styles,    \* the displayed style_data_conditional, one per table id
  ret,             \* the last function call and what it returned
  earlier,         \* history: the first return_chart_data call made with
                   \* the current mode and country
  between          \* history: another call was made since that one

vars == <<indicator_dfs, df_metadata, mode, country, figures, table_data, table_styles,
          ret, earlier, between>>

(* ------------------------------- data --------------------------------- *)
Profiles == {"distinct", "ties"}
Orientations == {"fwd", "rev"}

\* Value of the row ranked i of n: never increasing with the rank; the
\* "ties" profile has pairs of equal values and negative values at the bottom
ValueAt(profile, n, i) ==
  IF profile = "distinct" THEN 4 * (n - i) + 1 ELSE ((n - i) \div 2) - 3

CountryAt(orientation, i) ==
  IF orientation = "fwd" THEN i ELSE NumCountries + 1 - i

\* the rows of one indicator as data.csv holds them, here in descending
\* Rank order so that the load has to sort them
CsvRows(profile, orientation, n) ==
  [k \in 1..n |->
     LET i == n + 1 - k
     IN [Country |-> CountryAt(orientation, i),
         Value |-> ValueAt(profile, n, i),
         Rank |-> i,
         Country_with_rank |-> <<CountryAt(orientation, i), i>>]]

\* df_ind.sort_values("Rank").reset_index(drop=True)
LoadTable(rows) == sort_values(rows, "Rank", TRUE)

OtherProfile(p) == IF p = "distinct" THEN "ties" ELSE "distinct"

\* metadata.csv: the group of each displayed indicator and its axis bounds
MetadataRows ==
  [ind \in Indicators |->
     [Group |-> IF ind = "Population" THEN "People" ELSE "Economy",
      Min_value |-> 0 - 4,
      Max_value |-> 4 * MaxN]]

(* ------------------------- return_chart_data -------------------------- *)
\* the Country column of a frame
CountryValuesOf(df) == {df[i].Country : i \in 1..Len(df)}

\* df.loc[df["Country"] == c, "Rank"]
RanksOf(df, c) ==
  LET matching == SelectSeq(df, LAMBDA r : r.Country = c)
  IN [k \in 1..Len(matching) |-> matching[k].Rank]

Returned(value) == [raised |-> "none", value |-> value]
Raised(what) == [raised |-> what, value |-> <<>>]

\* mutant of IsTopTenRequest: the test for a missing country is dropped
IsTopTenRequest_mode_only(m, selected_country) == m = "top10"

\* mode == "top10" or (mode == "country" and selected_country is None)
IsTopTenRequest(m, selected_country) ==
  m = "top10" \/ (m = "country" /\ selected_country = None)

\* mutant of CountryAbsent: the guard for a country without data is dropped
CountryAbsent_never(df, selected_country) == FALSE

\* selected_country not in df_filtered["Country"].values
CountryAbsent(df, selected_country) ==
  selected_country \notin CountryValuesOf(df)

\* mutant of TopRows: the final sort is descending
TopRows_descending(df) == sort_values(nlargest(df, TopN, "Value"), "Value", FALSE)

\* df_filtered.nlargest(10, "Value").sort_values(by='Value', ascending=True)
TopRows(df) == sort_values(nlargest(df, TopN, "Value"), "Value", TRUE)

\* df_filtered.nsmallest(10, "Value").sort_values(by='Value', ascending=True)
BottomRows(df) == sort_values(nsmallest(df, TopN, "Value"), "Value", TRUE)

\* mutant of InTopBranch: strict comparison
InTopBranch_strict(selected_country_rank) == selected_country_rank < TopN

\* selected_country_rank <= 10
InTopBranch(selected_country_rank) == selected_country_rank <= TopN

\* mutant of InBottomBranch: strict comparison
InBottomBranch_strict(selected_country_rank, countries_count) ==
  selected_country_rank > countries_count - TopN

\* selected_country_rank >= countries_count - 10
InBottomBranch(selected_country_rank, countries_count) ==
  selected_country_rank >= countries_count - TopN

\* mutant of Neighbors: a window of 5 rows on either side
Neighbors_wide(df, selected_country_rank) ==
  sort_values(Filter(df, selected_country_rank - WindowBelow,
                     selected_country_rank + WindowBelow),
              "Rank", TRUE)

\* the rows ranked selected_country_rank - 5 .. selected_country_rank + 4,
\* sorted by Rank ascending
Neighbors(df, selected_country_rank) ==
  sort_values(Filter(df, selected_country_rank - WindowBelow,
                     selected_country_rank + WindowAbove),
              "Rank", TRUE)

\* the selection of rows for one table
SelectRows(df_filtered, m, selected_country) ==
  IF IsTopTenRequest(m, selected_country)
  THEN Returned(TopRows(df_filtered))
  ELSE IF CountryAbsent(df_filtered, selected_country)
  THEN Returned(<<>>)
  ELSE LET ranks == RanksOf(df_filtered, selected_country)
       IN IF ranks = <<>> THEN Raised("IndexError")   \* .iloc[0] of nothing
          ELSE LET selected_country_rank == ranks[1]
                   countries_count == ColMax(df_filtered, "Rank")
               IN IF InTopBranch(selected_country_rank)
                  THEN Returned(TopRows(df_filtered))
                  ELSE IF InBottomBranch(selected_country_rank, countries_count)
                  THEN Returned(BottomRows(df_filtered))
                  ELSE Returned(Neighbors(df_filtered, selected_country_rank))

\* return_chart_data works on a copy of the indicator's table
return_chart_data(indicator_name, m, selected_country) ==
  SelectRows(indicator_dfs[indicator_name], m, selected_country)

(* -------------------------- create_bar_chart -------------------------- *)
NaN == [nan |-> TRUE, num |-> 0, den |-> 1]
Num(num, den) == [nan |-> FALSE, num |-> num, den |-> den]

\* df_chart["Value"] / x_max > 0.75
Cond(value, x_max) ==
  IF x_max > 0 THEN 4 * value > 3 * x_max
  ELSE IF x_max < 0 THEN 4 * value < 3 * x_max
  ELSE value > 0

\* the colours of the selected bar and of the other bars, by group
BarColors(group) ==
  IF group = "Economy" THEN <<"goldenrod", "khaki">>
  ELSE IF group = "People" THEN <<"gray", "silver">>
  ELSE IF group = "Geography" THEN <<"seagreen", "lightgreen">>
  ELSE <<"steelblue", "lightblue">>

\* the working row of the chart: the selected row plus the added columns
ChartRow(row, group, x_max, selected_country) ==
  LET cond == Cond(row.Value, x_max)
  IN [Country |-> row.Country, Value |-> row.Value, Rank |-> row.Rank,
      Country_with_rank |-> row.Country_with_rank,
      bar_color |-> IF row.Country = selected_country
                    THEN BarColors(group)[1] ELSE BarColors(group)[2],
      annotation_color |-> IF row.Country = selected_country /\ cond
                           THEN "white" ELSE "dimgray",
      text_position |-> IF cond THEN "none" ELSE "outside",
      \* Value / x_max - 0.06, as a fraction
      text_x |-> IF cond THEN Num(100 * row.Value - 6 * x_max, 100 * x_max) ELSE NaN]

\* the annotations that stand in for the hidden labels: one per row whose
\* text_x is a number, at the row's position (counted from 0)
RECURSIVE Annotations(_, _)
Annotations(df_chart, i) ==
  IF i > Len(df_chart) THEN <<>>
  ELSE IF df_chart[i].text_x.nan THEN Annotations(df_chart, i + 1)
  ELSE <<[x |-> df_chart[i].text_x, y |-> i - 1, value |-> df_chart[i].Value,
          color |-> df_chart[i].annotation_color]>>
       \o Annotations(df_chart, i + 1)

\* the figure built from the selection sorted by Rank descending
BarChart(selection, meta, selected_country) ==
  LET sorted == sort_values(selection, "Rank", FALSE)
      x_max == meta.Max_value
      x_min == meta.Min_value
      df_chart == [i \in 1..Len(sorted) |->
                     ChartRow(sorted[i], meta.Group, x_max, selected_country)]
  IN [data |-> df_chart,
      bg_color |-> IF Len(sorted) = 0 THEN "whitesmoke" ELSE "white",
      \* max_val <= 100 is False for the NaN of an empty frame
      texttemplate |-> IF Len(sorted) > 0 /\ ColMax(sorted, "Value") <= 100
                       THEN ",.1f" ELSE ",.0f",
      range |-> <<x_min, x_max>>,
      annotations |-> Annotations(df_chart, 1)]

create_bar_chart(indicator_name, m, selected_country) ==
  LET r == return_chart_data(indicator_name, m, selected_country)
  IN IF r.raised # "none" THEN r
     ELSE Returned(BarChart(r.value, df_metadata[indicator_name], selected_country))

\* chart_configs.get(indicator_name): only "Patents" has an entry
chart_configs(indicator_name) ==
  IF indicator_name = "Patents" THEN "stacked" ELSE "none"

\* every kind of chart is the default bar chart for now
create_chart(indicator_name, m, selected_country) ==
  LET cfg == chart_configs(indicator_name)
  IN IF cfg = "none" THEN create_bar_chart(indicator_name, m, selected_country)
     ELSE IF cfg = "dual" THEN create_bar_chart(indicator_name, m, selected_country)
     ELSE IF cfg = "stacked" THEN create_bar_chart(indicator_name, m, selected_country)
     ELSE create_bar_chart(indicator_name, m, selected_country)

(* ------------------------ create_countries_list ----------------------- *)
\* df_chart[["Country_with_rank"]].to_dict("records")
Records(df) == [i \in 1..Len(df) |-> [Country_with_rank |-> df[i].Country_with_rank]]

\* mutant of ListData: the list is sorted like the chart, by Rank descending
ListData_descending(selection) == Records(sort_values(selection, "Rank", FALSE))

\* the selection sorted by Rank ascending, as the data of the list
ListData(selection) == Records(sort_values(selection, "Rank", TRUE))

create_countries_list(indicator_name, m, selected_country) ==
  LET r == return_chart_data(indicator_name, m, selected_country)
  IN IF r.raised # "none" THEN r
     ELSE Returned([id |-> indicator_name, data |-> ListData(r.value)])

(* ----------------------------- update_all ----------------------------- *)
\* Python truth value of the dropdown value
Truthy(c) == c # None /\ c # EmptyString

\* mutant of current_mode: a selected country decides, whatever the radio says
current_mode_country_first(m, c) == IF Truthy(c) THEN "country" ELSE "top10"

\* mutant of current_mode: the radio value is passed on as it is
current_mode_raw(m, c) == m

\* "country" if (mode == "country" and country) else "top10"
current_mode(m, c) == IF m = "country" /\ Truthy(c) THEN "country" ELSE "top10"

\* style_data_conditional of one table
TableStyle(c) ==
  IF Truthy(c) THEN <<[filter_contains |-> c, fontWeight |-> "bold", color |-> "black"]>>
  ELSE <<>>

FirstRaised(results) ==
  LET bad == {k \in 1..Len(results) : results[k].raised # "none"}
  IN IF bad = {} THEN "none"
     ELSE results[CHOOSE k \in bad : \A j \in bad : k <= j].raised

\* the callback: one figure per chart id, one data list and one style per
\* table id, in the order of the ids
update_all(m, c, chart_ids, table_ids) ==
  LET cm == current_mode(m, c)
      \* both loops, each result computed once
      charts == [k \in 1..Len(chart_ids) |-> create_chart(chart_ids[k], cm, c)] \o <<>>
      tables == [k \in 1..Len(table_ids) |-> return_chart_data(table_ids[k], cm, c)] \o <<>>
      failed == FirstRaised(charts \o tables)
  IN IF failed # "none" THEN Raised(failed)
     ELSE Returned([chart_figures |-> [k \in 1..Len(chart_ids) |-> charts[k].value],
                    table_data_list |-> [k \in 1..Len(table_ids) |-> ListData(tables[k].value)],
                    table_styles_list |-> [k \in 1..Len(table_ids) |-> TableStyle(c)]])

(* ------------------------------ actions ------------------------------- *)
\* mutant of StoredTable: the caller works on the stored frame itself
StoredTable_alias(stored, working) == working

\* what a call leaves in indicator_dfs: return_chart_data works on
\* indicator_dfs[indicator_name].copy(), and nlargest, nsmallest, the mask
\* filter and sort_values build new frames, so the frame the caller works
\* on (working) is never the stored one
StoredTable(stored, working) == stored

\* the frame create_bar_chart works on: df_chart with the added columns
ChartFrame(result) == IF result.raised = "none" THEN result.value.data ELSE <<>>

Call(fn, args, result) ==
  [fn |-> fn, args |-> args, raised |-> result.raised, value |-> result.value]

NoCall == [fn |-> "none", args |-> <<>>, raised |-> "none", value |-> <<>>]

\* module load: the tables are read and sorted, and the layout is generated
\* with the default settings mode = "top10", selected_country = None
\* The first indicator's table has n rows of profile p, countries 1..n; the
\* second has the other MaxN - n rows of the other profile, counted down from
\* the last country, so that both tables range over every size 0..MaxN and
\* a country's rank differs between them.
Init ==
  /\ \E n \in 0..MaxN, p \in Profiles :
       indicator_dfs =
         [ind \in Indicators |->
            IF ind = indicator_ids[1]
            THEN LoadTable(CsvRows(p, "fwd", n))
            ELSE LoadTable(CsvRows(OtherProfile(p), "rev", MaxN - n))]
  /\ df_metadata = MetadataRows
  /\ mode = "top10"
  /\ country = None
  /\ figures = [k \in 1..Len(indicator_ids) |->
                  create_chart(indicator_ids[k], "top10", None).value]
  /\ table_data = [k \in 1..Len(indicator_ids) |->
                     create_countries_list(indicator_ids[k], "top10", None).value.data]
  /\ table_styles = [k \in 1..Len(indicator_ids) |-> <<>>]
  /\ ret = NoCall
  /\ earlier = NoCall
  /\ between = FALSE

\* update_all called with mode m and country c for the displayed ids
UpdateAllCall(m, c) ==
  /\ ret' = Call("update_all", <<m, c>>, update_all(m, c, indicator_ids, indicator_ids))
  /\ indicator_dfs' =
       [ind \in Indicators |->
          StoredTable(indicator_dfs[ind],
                      ChartFrame(create_bar_chart(ind, current_mode(m, c), c)))]
  /\ UNCHANGED df_metadata

\* the callback fires with the new input values; the framework replaces the
\* displayed figures, data and styles with what it returns, and leaves them
\* alone when it raises
RunCallback(m, c) ==
  /\ UpdateAllCall(m, c)
  /\ IF ret'.raised = "none"
     THEN /\ figures' = ret'.value.chart_figures
          /\ table_data' = ret'.value.table_data_list
          /\ table_styles' = ret'.value.table_styles_list
     ELSE UNCHANGED <<figures, table_data, table_styles>>

\* the user picks a radio button
SetMode(m) ==
  /\ m # mode
  /\ mode' = m
  /\ country' = country
  /\ RunCallback(m, country)
  /\ UNCHANGED <<earlier, between>>

\* the user picks a country in the dropdown, or clears it
SelectCountry(c) ==
  /\ c # country
  /\ country' = c
  /\ mode' = mode
  /\ RunCallback(mode, c)
  /\ UNCHANGED <<earlier, between>>

\* return_chart_data called with the current mode and country
CallReturnChartData(ind) ==
  LET r == return_chart_data(ind, mode, country)
  IN /\ ret' = Call("return_chart_data", <<ind, mode, country>>, r)
     /\ earlier' = IF earlier.fn = "none" THEN ret' ELSE earlier
     /\ between' = (between \/ (earlier.fn # "none" /\ earlier.args # ret'.args))
     /\ indicator_dfs' = [indicator_dfs EXCEPT ![ind] = StoredTable(@, r.value)]
     /\ UNCHANGED <<df_metadata, mode, country, figures, table_data, table_styles>>

\* create_bar_chart called with the current mode and country; it adds its
\* columns to the frame it works on
CallCreateBarChart(ind) ==
  LET r == create_bar_chart(ind, mode, country)
  IN /\ ret' = Call("create_bar_chart", <<ind, mode, country>>, r)
     /\ indicator_dfs' =
          [indicator_dfs EXCEPT
             ![ind] = StoredTable(@, ChartFrame(r))]
     /\ between' = (earlier.fn # "none")
     /\ UNCHANGED <<df_metadata, mode, country, figures, table_data, table_styles, earlier>>

\* create_countries_list called with the current mode and country
CallCreateCountriesList(ind) ==
  LET r == create_countries_list(ind, mode, country)
  IN /\ ret' = Call("create_countries_list", <<ind, mode, country>>, r)
     /\ indicator_dfs' =
          [indicator_dfs EXCEPT
             ![ind] = StoredTable(@, sort_values(return_chart_data(ind, mode, country).value,
                                                 "Rank", TRUE))]
     /\ between' = (earlier.fn # "none")
     /\ UNCHANGED <<df_metadata, mode, country, figures, table_data, table_styles, earlier>>

\* update_all called with the current mode and country
CallUpdateAll ==
  /\ UpdateAllCall(mode, country)
  /\ between' = (earlier.fn # "none")
  /\ UNCHANGED <<mode, country, figures, table_data, table_styles, earlier>>

\* the next calls are made with mode m and country c
ChooseArgs(m, c) ==
  /\ mode' = m
  /\ country' = c
  /\ ret' = NoCall
  /\ earlier' = NoCall
  /\ between' = FALSE
  /\ UNCHANGED <<indicator_dfs, df_metadata, figures, table_data, table_styles>>

\* a caller of the functions takes another mode
ChooseMode(m) == m # mode /\ ChooseArgs(m, country)

\* a caller of the functions takes another country
ChooseCountry(c) == c # country /\ ChooseArgs(mode, c)

\* the running dashboard: every user interaction fires the callback
Next ==
  \/ \E m \in Modes : SetMode(m)
  \/ \E c \in CountryValues : SelectCountry(c)

Spec == Init /\ [][Next]_vars

\* the functions called one after the other, with any arguments
NextCalls ==
  \/ \E m \in Modes : ChooseMode(m)
  \/ \E c \in CountryValues : ChooseCountry(c)
  \/ \E ind \in Indicators : CallReturnChartData(ind)
  \/ \E ind \in Indicators : CallCreateBarChart(ind)
  \/ \E ind \in Indicators : CallCreateCountriesList(ind)
  \/ CallUpdateAll

SpecCalls == Init /\ [][NextCalls]_vars

(* ------------------------- properties: helpers ------------------------ *)
IsCall(fn) == ret.fn = fn
\* the arguments of the last return_chart_data call
ArgIndicator == ret.args[1]
ArgMode == ret.args[2]
ArgCountry == ret.args[3]
ArgTable == indicator_dfs[ArgIndicator]

RowSet(df) == {df[i] : i \in 1..Len(df)}
RankSet(df) == {df[i].Rank : i \in 1..Len(df)}
Present(c, df) == \E i \in 1..Len(df) : df[i].Country = c
RankIn(c, df) == (CHOOSE r \in RowSet(df) : r.Country = c).Rank
MaxRank(df) == CHOOSE n \in RankSet(df) : \A k \in RankSet(df) : k <= n
AscendingBy(df, col) == \A i, j \in 1..Len(df) : i < j => df[i][col] <= df[j][col]
\* rows are pairwise different rows of df
RowsOfTable(rows, df) ==
  /\ RowSet(rows) \subseteq RowSet(df)
  /\ Cardinality(RankSet(rows)) = Len(rows)

\* a returned call of return_chart_data in mode "country" for a country
\* that the table holds
CountryCallPresent ==
  /\ IsCall("return_chart_data")
  /\ ArgMode = "country"
  /\ Present(ArgCountry, ArgTable)

(* ------------------------------- C1 ----------------------------------- *)
\* C1: in mode "top10" return_chart_data returns exactly min(10, N) rows of
\* the table, no row left out has a larger Value than a returned row, and
\* the returned rows are in ascending order of Value.
C1_TopTen ==
  (IsCall("return_chart_data") /\ ArgMode = "top10") =>
    /\ ret.raised = "none"
    /\ Len(ret.value) = Min(10, Len(ArgTable))
    /\ RowsOfTable(ret.value, ArgTable)
    /\ \A out \in RowSet(ArgTable) \ RowSet(ret.value) :
         \A in \in RowSet(ret.value) : out.Value <= in.Value
    /\ AscendingBy(ret.value, "Value")

\* a top-ten call on a table of more than 10 rows, some of them left out
C1_Witness ==
  /\ IsCall("return_chart_data") /\ ArgMode = "top10"
  /\ Len(ArgTable) > 10
  /\ Len(ret.value) = 10

(* ------------------------------- C2 ----------------------------------- *)
\* C2: for a present country with 10 < r < N - 10, mode "country" returns
\* exactly the 10 rows ranked r-5 .. r+4, in ascending order of Rank, the
\* country's own row among them.
C2_MiddleWindow ==
  CountryCallPresent =>
    LET r == RankIn(ArgCountry, ArgTable)
        N == MaxRank(ArgTable)
    IN (10 < r /\ r < N - 10) =>
         /\ ret.raised = "none"
         /\ Len(ret.value) = 10
         /\ RowSet(ret.value) = {row \in RowSet(ArgTable) : row.Rank \in (r - 5)..(r + 4)}
         /\ \A k \in 1..Len(ret.value) : ret.value[k].Rank = r - 5 + (k - 1)
         /\ \E k \in 1..Len(ret.value) : ret.value[k].Country = ArgCountry

\* a call for a country in the middle of a table
C2_Witness ==
  /\ CountryCallPresent
  /\ 10 < RankIn(ArgCountry, ArgTable)
  /\ RankIn(ArgCountry, ArgTable) < MaxRank(ArgTable) - 10
  /\ Len(ret.value) = 10

(* ------------------------------- C3 ----------------------------------- *)
\* C3: for a present country ranked r <= 10, mode "country" returns the same
\* row sequence as mode "top10", whatever the size of the table (also when
\* r >= N - 10 holds as well).
C3_TopBranchIsTopTen ==
  (CountryCallPresent /\ RankIn(ArgCountry, ArgTable) <= 10) =>
    /\ ret.raised = "none"
    /\ ret.value = return_chart_data(ArgIndicator, "top10", ArgCountry).value

\* a call for a country ranked <= 10 in a small table, where the bottom
\* test r >= N - 10 holds too
C3_Witness ==
  /\ CountryCallPresent
  /\ RankIn(ArgCountry, ArgTable) <= 10
  /\ RankIn(ArgCountry, ArgTable) >= MaxRank(ArgTable) - 10
  /\ Len(ArgTable) > 10
  /\ ret.value # <<>>

(* ------------------------------- C4 ----------------------------------- *)
\* C4: for a present country with r > 10 and r >= N - 10, mode "country"
\* returns 10 rows of the table, no row left out has a smaller Value than a
\* returned row, and the returned rows are in ascending order of Value.
C4_BottomTen ==
  CountryCallPresent =>
    LET r == RankIn(ArgCountry, ArgTable)
        N == MaxRank(ArgTable)
    IN (r > 10 /\ r >= N - 10) =>
         /\ ret.raised = "none"
         /\ Len(ret.value) = 10
         /\ RowsOfTable(ret.value, ArgTable)
         /\ \A out \in RowSet(ArgTable) \ RowSet(ret.value) :
              \A in \in RowSet(ret.value) : out.Value >= in.Value
         /\ AscendingBy(ret.value, "Value")

\* a call for the country ranked exactly N - 10, in a table where rows are
\* left out of the bottom ten
C4_Witness ==
  /\ CountryCallPresent
  /\ RankIn(ArgCountry, ArgTable) > 10
  /\ RankIn(ArgCountry, ArgTable) = MaxRank(ArgTable) - 10
  /\ Len(ret.value) = 10

(* ------------------------------- C5 ----------------------------------- *)
\* C5: for a selected country that the table does not hold (the table may be
\* empty), mode "country" returns normally, with an empty row sequence.
C5_AbsentIsEmpty ==
  (/\ IsCall("return_chart_data")
   /\ ArgMode = "country"
   /\ ArgCountry # None
   /\ ~Present(ArgCountry, ArgTable)) =>
    /\ ret.raised = "none"
    /\ ret.value = <<>>

\* a call for a country of the dropdown that a non-empty table does not hold
C5_Witness ==
  /\ IsCall("return_chart_data")
  /\ ArgMode = "country"
  /\ ArgCountry \in Countries
  /\ ~Present(ArgCountry, ArgTable)
  /\ Len(ArgTable) > 0
  /\ ret.value = <<>>

(* ------------------------------- C6 ----------------------------------- *)
\* C6 as stated: every result of return_chart_data has at most 10 rows, and
\* has 0 rows only in mode "country" with a selected country that the table
\* does not hold.
C6_Original ==
  IsCall("return_chart_data") =>
    /\ Len(ret.value) <= 10
    /\ Len(ret.value) = 0 =>
         (ArgMode = "country" /\ ArgCountry # None /\ ~Present(ArgCountry, ArgTable))

\* C6 amended: every result of return_chart_data has at most 10 rows, and has
\* 0 rows only when the table is empty or in mode "country" with a selected
\* country that the table does not hold.
C6_AtMostTen ==
  IsCall("return_chart_data") =>
    /\ ret.raised = "none"
    /\ Len(ret.value) <= 10
    /\ Len(ret.value) = 0 =>
         \/ Len(ArgTable) = 0
         \/ (ArgMode = "country" /\ ArgCountry # None /\ ~Present(ArgCountry, ArgTable))

\* a top-ten call on an empty table, which returns no row
C6_Witness ==
  /\ IsCall("return_chart_data")
  /\ ArgMode = "top10"
  /\ Len(ArgTable) = 0
  /\ ret.raised = "none"
  /\ Len(ret.value) = 0

(* ------------------------------- C7 ----------------------------------- *)
\* C7: in mode "country" with no country chosen, return_chart_data returns
\* the rows of mode "top10" in the same order, and update_all called with
\* mode "country" and an empty country (None or the empty string) returns,
\* for every indicator, the list and the chart of the top-ten rows.
C7_NoCountryIsTopTen ==
  /\ (IsCall("return_chart_data") /\ ArgMode = "country" /\ ArgCountry = None) =>
       /\ ret.raised = "none"
       /\ ret.value = return_chart_data(ArgIndicator, "top10", None).value
  /\ (IsCall("update_all") /\ ret.args[1] = "country"
        /\ ret.args[2] \in {None, EmptyString}) =>
       /\ ret.raised = "none"
       /\ Len(ret.value.table_data_list) = Len(indicator_ids)
       /\ Len(ret.value.chart_figures) = Len(indicator_ids)
       /\ \A k \in 1..Len(indicator_ids) :
            LET top == return_chart_data(indicator_ids[k], "top10", None).value
            IN /\ ret.value.table_data_list[k]
                    = Records(sort_values(top, "Rank", TRUE))
               /\ ret.value.chart_figures[k]
                    = BarChart(top, df_metadata[indicator_ids[k]], ret.args[2])

\* a call in mode "country" without a country on a table of more than 10 rows
C7_Witness ==
  /\ IsCall("return_chart_data")
  /\ ArgMode = "country"
  /\ ArgCountry = None
  /\ Len(ArgTable) > 10
  /\ Len(ret.value) = 10

(* ------------------------------- C8 ----------------------------------- *)
\* C8: after any sequence of mode changes and country selections, there is
\* one displayed chart and one displayed list per indicator id, in the order
\* of the ids, and each shows the rows return_chart_data selects for the
\* current mode and country (mode "country" counting only with a country
\* chosen), the list in ascending order of Rank; they are what the last
\* update_all returned.
C8_DisplayFollowsInputs ==
  LET effective == IF mode = "country" /\ country # None /\ country # EmptyString
                   THEN "country" ELSE "top10"
  IN /\ Len(figures) = Len(indicator_ids)
     /\ Len(table_data) = Len(indicator_ids)
     /\ \A k \in 1..Len(indicator_ids) :
          LET sel == return_chart_data(indicator_ids[k], effective, country).value
              list == table_data[k]
              chart == figures[k].data
          IN /\ Len(list) = Len(sel)
             /\ {list[i].Country_with_rank : i \in 1..Len(list)}
                  = {sel[i].Country_with_rank : i \in 1..Len(sel)}
             /\ \A i, j \in 1..Len(list) :
                  i < j => list[i].Country_with_rank[2] < list[j].Country_with_rank[2]
             /\ Len(chart) = Len(sel)
             /\ {chart[i].Country_with_rank : i \in 1..Len(chart)}
                  = {sel[i].Country_with_rank : i \in 1..Len(sel)}
     /\ IsCall("update_all") =>
          /\ ret.args = <<mode, country>>
          /\ ret.raised = "none"
          /\ ret.value.chart_figures = figures
          /\ ret.value.table_data_list = table_data

\* after interactions, a country is selected whose neighbours are displayed
\* for the first indicator and which the second indicator's table lacks
C8_Witness ==
  /\ IsCall("update_all")
  /\ mode = "country"
  /\ country \in Countries
  /\ Len(table_data[1]) = 10
  /\ table_data[1][1].Country_with_rank[2] > 1
  /\ table_data[2] = <<>>
  /\ Len(indicator_dfs[indicator_ids[2]]) > 0

(* ------------------------------- C9 ----------------------------------- *)
\* C9: a call of return_chart_data returns the same row sequence as the
\* first call made with the same (indicator, mode, country), whatever calls
\* of return_chart_data, create_bar_chart, create_countries_list or
\* update_all were made in between.
C9_SameArgsSameRows ==
  (IsCall("return_chart_data") /\ earlier.fn = "return_chart_data"
     /\ earlier.args = ret.args) =>
    /\ ret.raised = earlier.raised
    /\ ret.value = earlier.value

\* a second call with the arguments of the first, other calls in between
C9_Witness ==
  /\ IsCall("return_chart_data")
  /\ earlier.fn = "return_chart_data"
  /\ earlier.args = ret.args
  /\ between
  /\ Len(ret.value) = 10

(* ------------------------------- C10 ---------------------------------- *)
\* C10: no call changes the per-indicator tables or the metadata table, and
\* every table stays in ascending order of Rank, ranks 1..N, with the
\* columns it was loaded with.
C10_TablesUnchanged ==
  /\ [][indicator_dfs' = indicator_dfs /\ df_metadata' = df_metadata]_vars
  /\ [](\A ind \in Indicators :
          \A i \in 1..Len(indicator_dfs[ind]) :
            /\ indicator_dfs[ind][i].Rank = i
            /\ DOMAIN indicator_dfs[ind][i]
                 = {"Country", "Value", "Rank", "Country_with_rank"})

\* create_bar_chart has returned a figure whose working rows carry the added
\* columns, for a table of more than 10 rows
C10_Witness ==
  /\ IsCall("create_bar_chart")
  /\ Len(ret.value.data) = 10
  /\ "bar_color" \in DOMAIN ret.value.data[1]
  /\ Len(ArgTable) > 10
  /\ between

(* ------------------------------- C11 ---------------------------------- *)
\* the Country_with_rank column of a frame, in row order
Keys(df) == [i \in 1..Len(df) |-> df[i].Country_with_rank]
KeySet(df) == {df[i].Country_with_rank : i \in 1..Len(df)}
Reverse(s) == [i \in 1..Len(s) |-> s[Len(s) + 1 - i]]
\* the ranks of the keys strictly increase
KeysAscending(keys) ==
  \A i, j \in 1..Len(keys) : i < j => keys[i][2] < keys[j][2]

\* C11: for every indicator, mode and country the list (create_countries_list
\* and update_all) holds the rows of the selection in ascending order of
\* Rank, the chart (create_bar_chart) holds the same rows in descending order
\* of Rank, and the chart sequence is the reverse of the list sequence.
C11_ChartReversesList ==
  /\ IsCall("create_countries_list") =>
       LET sel == return_chart_data(ArgIndicator, ArgMode, ArgCountry).value
           list == Keys(ret.value.data)
       IN /\ ret.raised = "none"
          /\ Len(list) = Len(sel)
          /\ {list[i] : i \in 1..Len(list)} = KeySet(sel)
          /\ KeysAscending(list)
  /\ IsCall("create_bar_chart") =>
       LET sel == return_chart_data(ArgIndicator, ArgMode, ArgCountry).value
           chart == Keys(ret.value.data)
       IN /\ ret.raised = "none"
          /\ Len(chart) = Len(sel)
          /\ {chart[i] : i \in 1..Len(chart)} = KeySet(sel)
          /\ KeysAscending(Reverse(chart))
          /\ chart = Reverse(Keys(create_countries_list(ArgIndicator, ArgMode,
                                                        ArgCountry).value.data))
  /\ IsCall("update_all") =>
       /\ ret.raised = "none"
       /\ \A k \in 1..Len(indicator_ids) :
            /\ KeysAscending(Keys(ret.value.table_data_list[k]))
            /\ Keys(ret.value.chart_figures[k].data)
                 = Reverse(Keys(ret.value.table_data_list[k]))

\* update_all has returned, for a country in the middle of the first table,
\* the list and the chart of its ten neighbours
C11_Witness ==
  /\ IsCall("update_all")
  /\ ret.args[1] = "country"
  /\ Len(ret.value.table_data_list[1]) = 10
  /\ ret.value.table_data_list[1][1].Country_with_rank[2] > 1
  /\ ret.value.table_data_list[1][10].Country_with_rank[2]
       < Len(indicator_dfs[indicator_ids[1]])
  /\ Len(ret.value.chart_figures[1].data) = 10

ChartRows(figure) ==
  [i \in 1..Len(figure.data) |->
     [Country_with_rank |-> figure.data[i].Country_with_rank,
      Value |-> figure.data[i].Value]]

\* the list rows and the chart rows of every indicator in one callback result
ShownRows(result) ==
  IF result.raised # "none" THEN <<result.raised>>
  ELSE <<result.value.table_data_list,
         [k \in 1..Len(result.value.chart_figures) |->
            ChartRows(result.value.chart_figures[k])]>>

\* C13: when update_all is called with mode "top10", the list rows and the
\* chart rows it returns for every indicator are, in the same order, the ones
\* it returns with mode "top10" for any other country value, be it a country
\* of the table, a country the table lacks, None or the empty string.
C13_TopTenIgnoresCountry ==
  (IsCall("update_all") /\ ret.args[1] = "top10") =>
    \A c2 \in CountryValues :
      ShownRows(update_all("top10", c2, indicator_ids, indicator_ids))
        = ShownRows(ret)

\* mode "top10" was chosen while a country outside the top ten of the first
\* table, and missing from the second, is still selected
C13_Witness ==
  /\ IsCall("update_all")
  /\ ret.args[1] = "top10"
  /\ mode = "top10"
  /\ country \in Countries
  /\ ret.args[2] = country
  /\ Present(country, indicator_dfs[indicator_ids[1]])
  /\ RankIn(country, indicator_dfs[indicator_ids[1]]) > TopN
  /\ ~Present(country, indicator_dfs[indicator_ids[2]])
  /\ Len(table_data[1]) = TopN
  /\ Len(table_data[2]) > 0

=============================================================================
